---- MODULE Spec2Model ----
(***************************************************************************)
(* The project-management server (server/index.js over server/database.js) *)
(* as a state machine: the SQLite table `projects`, the wall clock the     *)
(* handlers read, and the last request/response exchanged over the REST    *)
(* API.                                                                    *)
(*                                                                         *)
(* Values are tagged so that SQL NULL, text, integers and timestamps can   *)
(* be told apart: Txt(s) is a string, Num(n) an integer, Iso(t) the string *)
(* new Date(t).toISOString() (ISO strings of the years 0000-9999 sort as   *)
(* their millisecond values do), NULL is SQL NULL / JSON null, and         *)
(* Undefined is JavaScript's undefined.                                    *)
(***************************************************************************)
EXTENDS Integers, Sequences, FiniteSets, TLC

VARIABLES
    \* the server
    store,   \* the rows of table projects, in rowid (insertion) order
    clock,   \* the wall clock, in milliseconds
    last,    \* the last request handled and the response it got
    pending, \* updateProject calls between their UPDATE and their SELECT
    \* the client: App and ProjectForm state
    metadata,            \* App: the enumerations fetched, or null
    editingProject,      \* App: the record being edited (the form's project prop)
    showProjectForm,     \* App: the form is mounted
    formData,            \* ProjectForm: the nineteen data fields
    otherSubSector,      \* ProjectForm: the free text of sub-sector "Other"
    errors,              \* ProjectForm: the errors of the last validation
    isDuplicateBlocked,  \* ProjectForm: the duplicate-blocked flag
    existingProjects,    \* ProjectForm: the records fetched for the duplicate check
    loading,             \* ProjectForm: a submit is in progress
    outbox,              \* the API calls handleSubmit has issued
    edits,               \* how many change events the form has handled
    projects,            \* App: the cached record list (the Dashboard's prop)
    dash                 \* what the Dashboard last rendered

serverVars == <<store, clock, last, pending>>
formVars == <<metadata, editingProject, showProjectForm, formData, otherSubSector, errors,
              isDuplicateBlocked, existingProjects, loading, outbox, edits>>
formVarsButOutbox == <<metadata, editingProject, showProjectForm, formData, otherSubSector,
                       errors, isDuplicateBlocked, existingProjects, loading, edits>>
dashVars == <<projects, dash>>
clientVars == <<formVars, dashVars>>
vars == <<serverVars, clientVars>>

\* ------------------------------------------------------------------ bounds
MaxRows == 2    \* creates are accepted while the table holds fewer rows
MaxClock == 2   \* the clock runs over 1..MaxClock
MaxPending == 1 \* updateProject calls that may wait for their read-back

\* ------------------------------------------------------------------ values
NULL == [null |-> TRUE]
Undefined == [undefined |-> TRUE]
Txt(s) == [text |-> s]
Num(n) == [int |-> n]
Iso(t) == [iso |-> t]

\* ------------------------------------------------------------------ schema
\* CREATE TABLE projects: the columns in declaration order.
Columns ==
    << "id", "companyName", "sector", "subSector", "region", "zone", "woreda",
       "approvalDate", "owner", "advisorCompany", "evaluator", "grantedBy",
       "contactPerson", "ownerPhone", "companyEmail", "companyWebsite",
       "projectStatus", "employeesMale", "employeesFemale", "employeesTotal",
       "createdAt", "updatedAt" >>

ColumnSet == {Columns[i] : i \in 1..Len(Columns)}

\* The columns declared NOT NULL.
NotNullCols ==
    { "companyName", "sector", "subSector", "region", "zone", "woreda",
      "approvalDate", "owner", "contactPerson", "ownerPhone", "companyEmail",
      "projectStatus", "createdAt", "updatedAt" }

\* The columns UPDATE ... SET takes from the request body (all but id,
\* createdAt and updatedAt).
DataCols == ColumnSet \ {"id", "createdAt", "updatedAt"}

\* project.<c> as node-sqlite3 binds it: an absent (undefined) property is
\* left unbound, which SQLite reads as NULL.
Bind(project, c) == IF c \in DOMAIN project THEN project[c] ELSE NULL

\* ------------------------------------------------------------------ table
\* The row an INSERT or UPDATE writes: one value per column.
RowOf(project) == [c \in ColumnSet |-> Bind(project, c)]

\* No NOT NULL column of the row holds NULL.
NotNullOk(row) == \A c \in NotNullCols : row[c] # NULL

\* id TEXT PRIMARY KEY of a rowid table: unique among the non-NULL ids.
\* SQLite lets such a column hold NULL, and NULLs never collide.
PrimaryKeyOk(tbl, row) ==
    row["id"] = NULL \/ \A i \in 1..Len(tbl) : tbl[i]["id"] # row["id"]

\* SqlInsert on a table with a unique index on (companyName, sector, region).
SqlInsertUniqueTriple(tbl, project) ==
    LET row == RowOf(project)
        triple(r) == <<r["companyName"], r["sector"], r["region"]>>
    IN  IF /\ NotNullOk(row) /\ PrimaryKeyOk(tbl, row)
           /\ \A i \in 1..Len(tbl) : triple(tbl[i]) # triple(row)
        THEN [err |-> FALSE, tbl |-> Append(tbl, row)]
        ELSE [err |-> TRUE, tbl |-> tbl]

\* SqlInsert as INSERT OR REPLACE: a row with the same id gives way.
SqlInsertOrReplace(tbl, project) ==
    LET row == RowOf(project)
        others == SelectSeq(tbl, LAMBDA r : r["id"] # row["id"])
    IN  IF NotNullOk(row)
        THEN [err |-> FALSE, tbl |-> Append(others, row)]
        ELSE [err |-> TRUE, tbl |-> tbl]

\* db.run(INSERT INTO projects (...) VALUES (...)): the table after the
\* statement and whether it raised a constraint error.
SqlInsert(tbl, project) ==
    LET row == RowOf(project) IN
    IF NotNullOk(row) /\ PrimaryKeyOk(tbl, row)
    THEN [err |-> FALSE, tbl |-> Append(tbl, row)]
    ELSE [err |-> TRUE, tbl |-> tbl]

\* UpdatedRow that also stamps createdAt with the time of the update.
UpdatedRowStampsCreatedAt(r, project, now) ==
    [c \in ColumnSet |->
        IF c \in DataCols THEN Bind(project, c)
        ELSE IF c \in {"createdAt", "updatedAt"} THEN Iso(now)
        ELSE r[c]]

\* UpdatedRow of a patch: a column the input leaves out keeps its value.
UpdatedRowKeepsOmitted(r, project, now) ==
    [c \in ColumnSet |->
        IF c \in DataCols /\ c \in DOMAIN project THEN project[c]
        ELSE IF c = "updatedAt" THEN Iso(now)
        ELSE r[c]]

\* The row UPDATE projects SET <data columns> = ?, updatedAt = ? makes of r.
UpdatedRow(r, project, now) ==
    [c \in ColumnSet |->
        IF c \in DataCols THEN Bind(project, c)
        ELSE IF c = "updatedAt" THEN Iso(now)
        ELSE r[c]]

\* SqlUpdate without its WHERE clause: every row is rewritten.
SqlUpdateNoWhere(tbl, id, project, now) ==
    LET new == [i \in 1..Len(tbl) |-> UpdatedRow(tbl[i], project, now)]
    IN  IF \E i \in 1..Len(tbl) : ~NotNullOk(new[i])
        THEN [err |-> TRUE, tbl |-> tbl]
        ELSE [err |-> FALSE, tbl |-> new]

\* db.run(UPDATE projects SET ... WHERE id = ?): every row whose id equals
\* the bound text is rewritten; a NOT NULL violation in a row it touches
\* aborts the statement; with no matching row nothing is checked or written.
SqlUpdate(tbl, id, project, now) ==
    LET hit(i) == tbl[i]["id"] = Txt(id)
        new == [i \in 1..Len(tbl) |->
                  IF hit(i) THEN UpdatedRow(tbl[i], project, now) ELSE tbl[i]]
    IN  IF \E i \in 1..Len(tbl) : hit(i) /\ ~NotNullOk(new[i])
        THEN [err |-> TRUE, tbl |-> tbl]
        ELSE [err |-> FALSE, tbl |-> new]

\* db.get(SELECT * FROM projects WHERE id = ?): the first matching row, or
\* undefined when there is none.
SqlGet(tbl, id) ==
    LET hits == {i \in 1..Len(tbl) : tbl[i]["id"] = Txt(id)} IN
    IF hits = {} THEN Undefined
    ELSE tbl[CHOOSE i \in hits : \A j \in hits : i <= j]

\* SqlDelete without its WHERE clause: every row goes.
SqlDeleteNoWhere(tbl, id) == <<>>

\* db.run(DELETE FROM projects WHERE id = ?): never an error, also when no
\* row matches.
SqlDelete(tbl, id) ==
    LET keep(r) == r["id"] # Txt(id) IN SelectSeq(tbl, keep)

\* SqlAll with ORDER BY createdAt ASC.
SqlAllAscending(tbl) ==
    LET n == Len(tbl)
        perms == {p \in [1..n -> 1..n] : \A i, j \in 1..n : i # j => p[i] # p[j]}
        sorted(p) == \A i \in 1..n : i < n =>
                        tbl[p[i]]["createdAt"].iso <= tbl[p[i + 1]]["createdAt"].iso
    IN  {[i \in 1..n |-> tbl[p[i]]] : p \in {q \in perms : sorted(q)}}

\* db.all(SELECT * FROM projects ORDER BY createdAt DESC): the results the
\* statement may give; rows with equal createdAt come in an order SQL leaves
\* open.
SqlAll(tbl) ==
    LET n == Len(tbl)
        perms == {p \in [1..n -> 1..n] : \A i, j \in 1..n : i # j => p[i] # p[j]}
        sorted(p) == \A i \in 1..n : i < n =>
                        tbl[p[i]]["createdAt"].iso >= tbl[p[i + 1]]["createdAt"].iso
    IN  {[i \in 1..n |-> tbl[p[i]]] : p \in {q \in perms : sorted(q)}}

\* ------------------------------------------------------------------ handlers
\* NewProject with the body spread last, so that the body's own createdAt and
\* updatedAt win.
NewProjectBodyLast(body, t1, t2, t3) ==
    body @@ ("createdAt" :> Iso(t2) @@ "updatedAt" :> Iso(t3))
         @@ ("id" :> Txt(ToString(t1)))

\* app.post: const newProject = { id: Date.now().toString(), ...req.body,
\* createdAt: new Date().toISOString(), updatedAt: new Date().toISOString() }.
\* t1, t2, t3 are the three clock readings. (f @@ g: f's fields win.)
NewProject(body, t1, t2, t3) ==
    ("createdAt" :> Iso(t2) @@ "updatedAt" :> Iso(t3))
        @@ body @@ ("id" :> Txt(ToString(t1)))

\* createProject of a mutant that resolves whatever the statement did.
CreateProjectSwallowsError(tbl, project) ==
    [rejected |-> FALSE, value |-> project, tbl |-> SqlInsert(tbl, project).tbl]

\* dbOperations.createProject: resolves { ...project, id: project.id } or
\* rejects with the statement's error.
CreateProject(tbl, project) ==
    LET ins == SqlInsert(tbl, project) IN
    IF ins.err
    THEN [rejected |-> TRUE, value |-> Undefined, tbl |-> ins.tbl]
    ELSE [rejected |-> FALSE, value |-> project, tbl |-> ins.tbl]

\* dbOperations.updateProject: db.run(UPDATE) and then db.get(SELECT); it
\* resolves with the row read back (undefined when there is none).
UpdateProject(tbl, id, project, now) ==
    LET upd == SqlUpdate(tbl, id, project, now) IN
    IF upd.err
    THEN [rejected |-> TRUE, value |-> Undefined, tbl |-> upd.tbl]
    ELSE [rejected |-> FALSE, value |-> SqlGet(upd.tbl, id), tbl |-> upd.tbl]

\* dbOperations.deleteProject: resolves with a message whatever was deleted.
DeleteProject(tbl, id) ==
    [rejected |-> FALSE,
     value |-> [message |-> "Project deleted successfully"],
     tbl |-> SqlDelete(tbl, id)]

\* A request and its response, as the history variable keeps them. reads are
\* the clock readings the handler took, pre the table before the request.
Exchange(op, id, body, status, resp, pre, reads) ==
    [op |-> op, id |-> id, body |-> body, status |-> status, resp |-> resp,
     pre |-> pre, reads |-> reads]

ErrorBody(msg) == [error |-> msg]

\* ------------------------------------------------------------------ requests
\* A request body without the properties in S, and with property c set to v.
Omit(body, S) == [c \in (DOMAIN body) \ S |-> body[c]]
With(body, c, v) == (c :> v) @@ body

\* The body the form sends: the nineteen data fields.
Acme ==
    [companyName |-> Txt("Acme"), sector |-> Txt("Health"),
     subSector |-> Txt("Agroprocessing"), region |-> Txt("Afar"),
     zone |-> Txt("Zone 1"), woreda |-> Txt("Woreda 1"),
     approvalDate |-> Txt("2024-01-01"), owner |-> Txt("Owner"),
     advisorCompany |-> Txt("Advisor"), evaluator |-> Txt("Evaluator"),
     grantedBy |-> Txt("Grantor"), contactPerson |-> Txt("Contact"),
     ownerPhone |-> Txt("0911"), companyEmail |-> Txt("a@b.c"),
     companyWebsite |-> Txt("https://acme.example"),
     projectStatus |-> Txt("Planning"),
     employeesMale |-> Num(3), employeesFemale |-> Num(2),
     employeesTotal |-> Num(5)]

\* The request bodies the model draws from:
\*   Acme           as the form sends it;
\*   a body whose employeesTotal is not the sum of the other two;
\*   a body that carries id, createdAt and updatedAt of its own;
\*   a body whose id is JSON null;
\*   the body of the spec's PUT scenario: employeesMale and employeesFemale only;
\*   a body for another company that leaves out the optional properties.
RequestBodies ==
    { Acme,
      With(Acme, "employeesTotal", Num(7)),
      With(With(With(Acme, "id", Txt("1")), "createdAt", Iso(MaxClock + 1)),
           "updatedAt", Iso(0)),
      With(Acme, "id", NULL),
      [employeesMale |-> Num(3), employeesFemale |-> Num(2)],
      Omit(With(With(Acme, "companyName", Txt("ACME")), "projectStatus", Txt("Completed")),
           {"advisorCompany", "evaluator", "grantedBy", "companyWebsite",
            "employeesMale", "employeesFemale", "employeesTotal"}) }

\* The :id of a PUT or DELETE path: the ids the clock can have produced.
PathIds == {ToString(t) : t \in 1..MaxClock}

\* ------------------------------------------------------------------ actions
\* The form's initial formData: empty strings and zero counts. A form string
\* is the sequence of its characters.
EmptyForm ==
    [c \in DataCols |->
        IF c \in {"employeesMale", "employeesFemale", "employeesTotal"}
        THEN Num(0) ELSE Txt(<<>>)]

\* useState<Record<string, string>>({}): no errors.
NoErrors == [n \in {} |-> ""]

\* The client before anything is loaded or opened.
ClientIdle ==
    /\ metadata = NULL
    /\ editingProject = NULL
    /\ showProjectForm = FALSE
    /\ formData = EmptyForm
    /\ otherSubSector = <<>>
    /\ errors = NoErrors
    /\ isDuplicateBlocked = FALSE
    /\ existingProjects = <<>>
    /\ loading = FALSE
    /\ outbox = <<>>
    /\ edits = 0
    /\ projects = <<>>
    /\ dash = Undefined

\* The server after initializeDatabase on a new database file.
ServerInit ==
    /\ store = <<>>
    /\ clock = 1
    /\ last = Exchange("none", Undefined, Undefined, 0, Undefined, <<>>, <<>>)
    /\ pending = {}

Init == ServerInit /\ ClientIdle

\* The wall clock advances between requests.
Tick ==
    /\ clock < MaxClock
    /\ clock' = clock + 1
    /\ UNCHANGED <<store, last, pending, clientVars>>

\* GET /api/projects
GetProjects ==
    /\ \E rows \in SqlAll(store) :
          last' = Exchange("GET", Undefined, Undefined, 200, rows, store, <<>>)
    /\ UNCHANGED <<store, clock, pending, clientVars>>

\* POST /api/projects: the clock may advance between the handler's three
\* readings of it.
PostProject ==
    /\ Len(store) < MaxRows
    /\ \E body \in RequestBodies, t2 \in clock..MaxClock :
        \E t3 \in t2..MaxClock :
          LET newProject == NewProject(body, clock, t2, t3)
              res == CreateProject(store, newProject)
          IN  /\ store' = res.tbl
              /\ clock' = t3
              /\ last' = IF res.rejected
                         THEN Exchange("POST", Undefined, body, 500,
                                       ErrorBody("Failed to create project"),
                                       store, <<clock, t2, t3>>)
                         ELSE Exchange("POST", Undefined, body, 201, res.value,
                                       store, <<clock, t2, t3>>)
    /\ UNCHANGED <<pending, clientVars>>

\* PUT /api/projects/:id
PutProject ==
    /\ \E id \in PathIds, body \in RequestBodies :
          LET res == UpdateProject(store, id, body, clock)
          IN  /\ store' = res.tbl
              /\ last' = IF res.rejected
                         THEN Exchange("PUT", id, body, 500,
                                       ErrorBody("Failed to update project"),
                                       store, <<clock>>)
                         ELSE Exchange("PUT", id, body, 200, res.value,
                                       store, <<clock>>)
    /\ UNCHANGED <<clock, pending, clientVars>>

\* DELETE /api/projects/:id
DeleteProjectRoute ==
    /\ \E id \in PathIds :
          LET res == DeleteProject(store, id)
          IN  /\ store' = res.tbl
              /\ last' = IF res.rejected
                         THEN Exchange("DELETE", id, Undefined, 500,
                                       ErrorBody("Failed to delete project"),
                                       store, <<>>)
                         ELSE Exchange("DELETE", id, Undefined, 200,
                                       [message |-> "Project deleted successfully"],
                                       store, <<>>)
    /\ UNCHANGED <<clock, pending, clientVars>>

Next ==
    \/ Tick
    \/ GetProjects
    \/ PostProject
    \/ PutProject
    \/ DeleteProjectRoute

Spec == Init /\ [][Next]_vars

\* ------------------------------------------------------------------ updateProject, statement by statement
\* PUT /api/projects/:id up to the callback of db.run(UPDATE): an error ends
\* the request with 500, otherwise the call waits for its db.get.
PutRun ==
    /\ Cardinality(pending) < MaxPending
    /\ \E id \in PathIds, body \in RequestBodies :
          LET upd == SqlUpdate(store, id, body, clock)
          IN  /\ store' = upd.tbl
              /\ IF upd.err
                 THEN /\ last' = Exchange("PUT", id, body, 500,
                                          ErrorBody("Failed to update project"),
                                          store, <<clock>>)
                      /\ pending' = pending
                 ELSE /\ last' = last
                      /\ pending' = pending \cup
                            {[id |-> id, body |-> body, now |-> clock, pre |-> store]}
    /\ UNCHANGED <<clock, clientVars>>

\* The db.get of a waiting call: the row read back is the response.
PutGet ==
    /\ \E call \in pending :
          /\ last' = Exchange("PUT", call.id, call.body, 200,
                              SqlGet(store, call.id), call.pre, <<call.now>>)
          /\ pending' = pending \ {call}
    /\ UNCHANGED <<store, clock, clientVars>>

\* The server with requests of several clients in progress: between the
\* UPDATE and the SELECT of one updateProject other requests are served.
NextConcurrent ==
    \/ Tick
    \/ PostProject
    \/ DeleteProjectRoute
    \/ PutRun
    \/ PutGet

SpecConcurrent == Init /\ [][NextConcurrent]_vars

\* ------------------------------------------------------------------ claims
\* What the formulas below read off a state.
IsNum(v) == DOMAIN v = {"int"}
Succeeded == last.status \in {200, 201}
Created == last.op = "POST" /\ last.status = 201
\* The positions of table tbl whose id is the text id.
RowsWithId(tbl, id) == {i \in 1..Len(tbl) : tbl[i]["id"] = Txt(id)}
\* employeesTotal = employeesMale + employeesFemale in record p.
TotalIsSum(p) ==
    LET m == Bind(p, "employeesMale")
        f == Bind(p, "employeesFemale")
        t == Bind(p, "employeesTotal")
    IN  IsNum(m) /\ IsNum(f) /\ IsNum(t) /\ t.int = m.int + f.int

\* C1: after any POST and PUT requests, every stored record and every record
\* a POST or PUT returned has employeesTotal = employeesMale + employeesFemale.
C1_TotalIsSumEverywhere ==
    /\ \A i \in 1..Len(store) : TotalIsSum(store[i])
    /\ (last.op \in {"POST", "PUT"} /\ Succeeded /\ last.resp # Undefined)
          => TotalIsSum(last.resp)

\* C2: no two rows of the table have the same id.
C2_IdsUnique ==
    \A i, j \in 1..Len(store) : i # j => store[i]["id"] # store[j]["id"]

\* C3: the id, createdAt and updatedAt of a created record are the values the
\* server chose (its clock readings), whatever the request body carries.
C3_ServerAssignsIdAndTimes ==
    Created =>
        /\ last.resp["id"] = Txt(ToString(last.reads[1]))
        /\ last.resp["createdAt"] = Iso(last.reads[2])
        /\ last.resp["updatedAt"] = Iso(last.reads[3])
        /\ store[Len(store)]["id"] = last.resp["id"]
        /\ store[Len(store)]["createdAt"] = last.resp["createdAt"]
        /\ store[Len(store)]["updatedAt"] = last.resp["updatedAt"]

\* C4: the record a successful create returns has createdAt = updatedAt.
C4_CreatedAtEqualsUpdatedAt ==
    Created => last.resp["createdAt"] = last.resp["updatedAt"]

\* C5: every stored record has createdAt <= updatedAt.
C5_CreatedNotAfterUpdated ==
    \A i \in 1..Len(store) :
        store[i]["createdAt"].iso <= store[i]["updatedAt"].iso

\* C5's case: an update has moved a row's updatedAt past its createdAt, next
\* to a row created while the clock advanced.
C5_Witness ==
    /\ last.op = "PUT" /\ last.status = 200 /\ last.resp # Undefined
    /\ last.resp["createdAt"].iso < last.resp["updatedAt"].iso
    /\ \E i \in 1..Len(store) :
          /\ store[i]["id"] # last.resp["id"]
          /\ store[i]["createdAt"].iso < store[i]["updatedAt"].iso

\* A PUT that found its row: the statement did not fail and the table held a
\* row with the path's id before it.
Updated ==
    /\ last.op = "PUT" /\ last.status = 200
    /\ RowsWithId(last.pre, last.id) # {}

\* C6: an update of an id that is not in the table does not report success
\* and leaves the table as it was.
C6_UpdateOfMissingIdFails ==
    (last.op = "PUT" /\ RowsWithId(last.pre, last.id) = {})
        => (~Succeeded /\ store = last.pre)

\* C7: a delete of an id that is not in the table does not return the success
\* acknowledgment and leaves the table as it was.
C7_DeleteOfMissingIdFails ==
    (last.op = "DELETE" /\ RowsWithId(last.pre, last.id) = {})
        => (~Succeeded /\ store = last.pre)

\* C8: a successful update of an existing record keeps its id and createdAt,
\* sets every data field to the input's value and updatedAt to the current
\* time, and leaves every other record as it was.
C8_UpdateFrame ==
    Updated =>
        /\ Len(store) = Len(last.pre)
        /\ \A i \in 1..Len(store) :
              IF i \in RowsWithId(last.pre, last.id)
              THEN /\ store[i]["id"] = last.pre[i]["id"]
                   /\ store[i]["createdAt"] = last.pre[i]["createdAt"]
                   /\ \A c \in DataCols : store[i][c] = Bind(last.body, c)
                   /\ store[i]["updatedAt"] = Iso(last.reads[1])
              ELSE store[i] = last.pre[i]

\* C8's case: the update changed a data field and updatedAt of one row of a
\* table of two.
C8_Witness ==
    /\ Updated
    /\ Len(store) = 2
    /\ \E i \in RowsWithId(last.pre, last.id) :
          /\ store[i]["companyName"] # last.pre[i]["companyName"]
          /\ store[i]["updatedAt"] # last.pre[i]["updatedAt"]

\* The input of the last PUT carries the current data fields of the row it
\* updates.
SameValues ==
    \A i \in RowsWithId(last.pre, last.id) :
        \A c \in DataCols : Bind(last.body, c) = last.pre[i][c]

\* C9: updating a record with its own current field values changes at most
\* its updatedAt; its other fields and the rest of the table stay the same.
C9_UpdateIdempotent ==
    (Updated /\ SameValues) =>
        /\ Len(store) = Len(last.pre)
        /\ \A i \in 1..Len(store) :
              \A c \in ColumnSet \ {"updatedAt"} : store[i][c] = last.pre[i][c]
        /\ \A i \in (1..Len(store)) \ RowsWithId(last.pre, last.id) :
              store[i] = last.pre[i]

\* C9's case: such an update, made after the clock advanced, changed
\* updatedAt and nothing else.
C9_Witness ==
    /\ Updated /\ SameValues
    /\ Len(store) = 2
    /\ \E i \in RowsWithId(last.pre, last.id) :
          store[i]["updatedAt"] # last.pre[i]["updatedAt"]

\* C10: after a successful create, every result listProjects can give next
\* holds exactly one record with the returned id, and that record's data
\* fields are the input's.
C10_CreateThenListRoundTrip ==
    Created =>
        \A rows \in SqlAll(store) :
            LET found == {k \in 1..Len(rows) : rows[k]["id"] = last.resp["id"]}
            IN  /\ Cardinality(found) = 1
                /\ \A k \in found :
                      \A c \in DataCols : rows[k][c] = Bind(last.body, c)

\* The multiset of the records of a sequence: how often each occurs.
Occurrences(rows, r) == Cardinality({k \in 1..Len(rows) : rows[k] = r})

\* C11: listProjects returns every record of the table exactly once, newest
\* createdAt first.
C11_ListAllNewestFirst ==
    last.op = "GET" =>
        /\ Len(last.resp) = Len(store)
        /\ \A i \in 1..Len(store) :
              Occurrences(last.resp, store[i]) = Occurrences(store, store[i])
        /\ \A k \in 1..Len(last.resp) : k < Len(last.resp) =>
              last.resp[k]["createdAt"].iso >= last.resp[k + 1]["createdAt"].iso

\* C11's case: a list of two records whose newer one was inserted last and
\* comes first.
C11_Witness ==
    /\ last.op = "GET" /\ Len(last.resp) = 2
    /\ last.resp[1] = store[2] /\ last.resp[2] = store[1]
    /\ last.resp[1]["createdAt"].iso > last.resp[2]["createdAt"].iso

\* The ids held by the rows of a table.
IdsOf(tbl) == {tbl[i]["id"] : i \in 1..Len(tbl)}

\* C12: after a successful delete no record with that id is left, the other
\* records are as they were, in their order, and no request other than a
\* create brings an id into the table.
C12_DeleteRemovesForGood ==
    /\ (last.op = "DELETE" /\ Succeeded) =>
          /\ RowsWithId(store, last.id) = {}
          /\ LET others(r) == r["id"] # Txt(last.id)
             IN  store = SelectSeq(last.pre, others)
    /\ last.op \in {"DELETE", "PUT", "GET"} => IdsOf(store) \subseteq IdsOf(last.pre)

\* C12's case: a delete removed one of two records and kept the other.
C12_Witness ==
    /\ last.op = "DELETE" /\ Succeeded
    /\ Len(last.pre) = 2 /\ Len(store) = 1
    /\ RowsWithId(last.pre, last.id) # {}

\* (companyName, sector, region) of a record.
Triple(p) == <<Bind(p, "companyName"), Bind(p, "sector"), Bind(p, "region")>>

\* The last request is a POST or PUT that the table's own constraints admit:
\* no NOT NULL column is left NULL and, for a POST, the new id is not taken.
Admissible ==
    \/ /\ last.op = "POST"
       /\ LET np == NewProject(last.body, last.reads[1], last.reads[2], last.reads[3])
          IN  NotNullOk(RowOf(np)) /\ PrimaryKeyOk(last.pre, RowOf(np))
    \/ /\ last.op = "PUT"
       /\ \A c \in NotNullCols \cap DataCols : Bind(last.body, c) # NULL

\* A record of the table before the last request, other than the one the
\* request addresses, holds the triple of the request's body.
TripleHeld ==
    \E i \in 1..Len(last.pre) :
        /\ Triple(last.pre[i]) = Triple(last.body)
        /\ last.op = "PUT" => last.pre[i]["id"] # Txt(last.id)

\* C16: the store does not enforce the (companyName, sector, region) rule: a
\* POST or PUT whose triple another record already holds succeeds like any
\* other, and the record it writes holds that triple too.
C16_StoreAdmitsDuplicateTriples ==
    (Admissible /\ TripleHeld) =>
        /\ Succeeded
        /\ last.op = "POST" => Triple(store[Len(store)]) = Triple(last.body)
        /\ last.op = "PUT" =>
              \A i \in RowsWithId(store, last.id) : Triple(store[i]) = Triple(last.body)

\* C16's case: a create has put a second record with the same triple into
\* the table.
C16_Witness ==
    /\ Created /\ TripleHeld
    /\ \E i, j \in 1..Len(store) : i # j /\ Triple(store[i]) = Triple(store[j])

\* The step is the read-back of an updateProject call that found its row when
\* it wrote: the call leaves pending and its response is in last'.
UpdateReturns ==
    /\ Cardinality(pending') < Cardinality(pending)
    /\ last'.op = "PUT" /\ last'.status = 200
    /\ RowsWithId(last'.pre, last'.id) # {}

\* C20: the record a successful updateProject returns is the record stored
\* under the id when it returns and carries the values of the call's input,
\* whatever other requests were served between its write and its read-back.
C20_ReadBackIsOwnWrite ==
    [][UpdateReturns =>
          /\ last'.resp # Undefined
          /\ \E i \in RowsWithId(store', last'.id) : store'[i] = last'.resp
          /\ \A c \in DataCols : Bind(last'.resp, c) = Bind(last'.body, c)]_vars

\* ================================================================ the client
\* The client trims, case-folds and pattern-matches its strings, so on the
\* client a string is the sequence of its characters: Txt(<<"A", "f", "a", "r">>)
\* is 'Afar'. NaN and Infinity are the two non-finite numbers a division by
\* zero produces.
NaN == [nan |-> TRUE]
Infinity == [infinity |-> TRUE]

\* GET /api/metadata: the enumerations of server/index.js.
Metadata ==
    [regions |->
        << <<"A", "d", "d", "i", "s", " ", "A", "b", "a", "b", "a">>,
        <<"A", "f", "a", "r">>,
        <<"A", "m", "h", "a", "r", "a">>,
        <<"B", "e", "n", "i", "s", "h", "a", "n", "g", "u", "l", "-", "G", "u", "m", "u", "z">>,
        <<"D", "i", "r", "e", " ", "D", "a", "w", "a">>,
        <<"G", "a", "m", "b", "e", "l", "a">>,
        <<"H", "a", "r", "a", "r", "i">>,
        <<"O", "r", "o", "m", "i", "a">>,
        <<"S", "i", "d", "a", "m", "a">>,
        <<"S", "N", "N", "P">>,
        <<"S", "o", "m", "a", "l", "i">>,
        <<"T", "i", "g", "r", "a", "y">>,
        <<"S", "o", "u", "t", "h", "w", "e", "s", "t">>,
        <<"C", "e", "n", "t", "r", "a", "l", " ", "E", "t", "h", "i", "o", "p", "i", "a">> >>,
     sectors |->
        << <<"H", "e", "a", "l", "t", "h">>,
        <<"I", "n", "d", "u", "s", "t", "r", "y">>,
        <<"A", "g", "r", "i", "c", "u", "l", "t", "u", "r", "e">> >>,
     subSectors |->
        << <<"A", "g", "r", "o", "p", "r", "o", "c", "e", "s", "s", "i", "n", "g">>,
        <<"F", "o", "o", "d", " ", "a", "n", "d", " ", "B", "e", "v", "e", "r", "a", "g", "e">>,
        <<"C", "o", "n", "s", "t", "r", "u", "c", "t", "i", "o", "n", " ", "a", "n", "d", " ", "E", "n", "g", "i", "n", "e", "e", "r", "i", "n", "g">>,
        <<"C", "h", "e", "m", "i", "c", "a", "l", " ", "a", "n", "d", " ", "D", "e", "t", "e", "r", "g", "e", "n", "t", "s">>,
        <<"T", "e", "x", "t", "i", "l", "e", " ", "a", "n", "d", " ", "G", "a", "r", "m", "e", "n", "t">>,
        <<"M", "u", "l", "t", "i", "-", "S", "e", "c", "t", "o", "r", "i", "a", "l">>,
        <<"M", "i", "n", "e", "r", "a", "l", "s">> >>,
     projectStatuses |->
        << <<"P", "l", "a", "n", "n", "i", "n", "g">>,
        <<"I", "n", " ", "P", "r", "o", "g", "r", "e", "s", "s">>,
        <<"C", "o", "m", "p", "l", "e", "t", "e", "d">>,
        <<"O", "n", " ", "H", "o", "l", "d">>,
        <<"C", "a", "n", "c", "e", "l", "l", "e", "d">> >>]

\* fetchMetadata has answered, or has not yet (or has failed).
MetadataStates == {NULL, Metadata}

\* A form filled in with values that pass validation.
FilledForm ==
    [companyName |-> Txt(<<"A", "c", "m", "e">>), sector |-> Txt(Metadata.sectors[1]),
     subSector |-> Txt(Metadata.subSectors[1]), region |-> Txt(Metadata.regions[2]),
     zone |-> Txt(<<"Z", "1">>), woreda |-> Txt(<<"W", "1">>),
     approvalDate |-> Txt(<<"2", "0", "2", "4", "-", "0", "1", "-", "0", "1">>), owner |-> Txt(<<"A", "b", "e", "b", "e">>),
     advisorCompany |-> Txt(<<>>), evaluator |-> Txt(<<>>), grantedBy |-> Txt(<<>>),
     contactPerson |-> Txt(<<"S", "a", "r", "a">>), ownerPhone |-> Txt(<<"0", "9", "1", "1">>),
     companyEmail |-> Txt(<<"a", "@", "b", ".", "c">>), companyWebsite |-> Txt(<<>>),
     projectStatus |-> Txt(Metadata.projectStatuses[1]),
     employeesMale |-> Num(4), employeesFemale |-> Num(6), employeesTotal |-> Num(10)]

\* The record the API returns for data stored under id: the Project type.
Record(id, data) ==
    [c \in ColumnSet |->
        IF c = "id" THEN Txt(id)
        ELSE IF c \in {"createdAt", "updatedAt"} THEN Iso(1)
        ELSE data[c]]

\* data with its three employee counts replaced.
Staffed(data, male, female, total) ==
    With(With(With(data, "employeesMale", male), "employeesFemale", female),
         "employeesTotal", total)

\* -------------------------------------------------------------- Dashboard
MaxProjects == 3   \* the longest record list the Dashboard is given

\* The records the Dashboard's lists are made of: three with employeesTotal
\* 10, 20 and 30; one stored through the API with a sector, a status and a
\* region outside the enumerations and a total of 0 beside 3 men; one stored
\* without employee counts (SQL NULL, JSON null).
DashboardRecords ==
    << Record("1", FilledForm),
       Record("2", Staffed(With(With(FilledForm, "sector", Txt(Metadata.sectors[2])),
                                "projectStatus", Txt(Metadata.projectStatuses[3])),
                           Num(12), Num(8), Num(20))),
       Record("3", Staffed(With(With(FilledForm, "region", Txt(Metadata.regions[8])),
                                "projectStatus", Txt(Metadata.projectStatuses[2])),
                           Num(30), Num(0), Num(30))),
       Record("4", Staffed(With(With(With(FilledForm, "sector", Txt(<<"M", "i", "n", "i", "n", "g">>)),
                                     "region", Txt(<<"A", "b", "r", "o", "a", "d">>)),
                                "projectStatus", Txt(<<"A", "r", "c", "h", "i", "v", "e", "d">>)),
                           Num(3), Num(0), Num(0))),
       Record("5", Staffed(FilledForm, NULL, NULL, NULL)) >>

\* The record lists of at most MaxProjects records.
ProjectLists ==
    UNION { [1..n -> {DashboardRecords[i] : i \in 1..Len(DashboardRecords)}]
            : n \in 0..MaxProjects }

\* JavaScript's a + b on numbers and null: null counts 0, NaN is absorbing.
JsAdd(a, b) ==
    IF a = NaN \/ b = NaN THEN NaN
    ELSE Num((IF a = NULL THEN 0 ELSE a.int) + (IF b = NULL THEN 0 ELSE b.int))

\* list.reduce((sum, p) => sum + p[field], 0)
RECURSIVE Reduce(_, _)
Reduce(list, field) ==
    IF list = <<>> THEN Num(0)
    ELSE JsAdd(Reduce(SubSeq(list, 1, Len(list) - 1), field), list[Len(list)][field])

\* list.filter(p => p[field] === value)
Filter(list, field, value) ==
    SelectSeq(list, LAMBDA p : p[field] = Txt(value))

\* totalEmployees of a mutant that adds up employeesMale.
StatsTotalFromMale(list) ==
    [totalProjects |-> Len(list),
     totalEmployees |-> Reduce(list, "employeesMale"),
     maleEmployees |-> Reduce(list, "employeesMale"),
     femaleEmployees |-> Reduce(list, "employeesFemale"),
     completedProjects |-> Len(Filter(list, "projectStatus", <<"C", "o", "m", "p", "l", "e", "t", "e", "d">>)),
     inProgressProjects |-> Len(Filter(list, "projectStatus", <<"I", "n", " ", "P", "r", "o", "g", "r", "e", "s", "s">>))]

\* const stats: DashboardStats
Stats(list) ==
    [totalProjects |-> Len(list),
     totalEmployees |-> Reduce(list, "employeesTotal"),
     maleEmployees |-> Reduce(list, "employeesMale"),
     femaleEmployees |-> Reduce(list, "employeesFemale"),
     completedProjects |-> Len(Filter(list, "projectStatus", <<"C", "o", "m", "p", "l", "e", "t", "e", "d">>)),
     inProgressProjects |-> Len(Filter(list, "projectStatus", <<"I", "n", " ", "P", "r", "o", "g", "r", "e", "s", "s">>))]

\* sectorData of a mutant that has no entry for a sector without records.
SectorDataSkipsEmpty(list, meta) ==
    IF meta = NULL THEN <<>>
    ELSE LET all == [i \in 1..Len(meta.sectors) |->
                        [name |-> meta.sectors[i],
                         value |-> Len(Filter(list, "sector", meta.sectors[i])),
                         employees |-> Reduce(Filter(list, "sector", meta.sectors[i]),
                                              "employeesTotal")]]
         IN  SelectSeq(all, LAMBDA e : e.value > 0)

\* const sectorData = metadata?.sectors.map(...) || []
SectorData(list, meta) ==
    IF meta = NULL THEN <<>>
    ELSE [i \in 1..Len(meta.sectors) |->
            [name |-> meta.sectors[i],
             value |-> Len(Filter(list, "sector", meta.sectors[i])),
             employees |-> Reduce(Filter(list, "sector", meta.sectors[i]),
                                  "employeesTotal")]]

\* const statusData = metadata?.projectStatuses.map(...) || []
StatusData(list, meta) ==
    IF meta = NULL THEN <<>>
    ELSE [i \in 1..Len(meta.projectStatuses) |->
            [name |-> meta.projectStatuses[i],
             value |-> Len(Filter(list, "projectStatus", meta.projectStatuses[i]))]]

\* const regionData = metadata?.regions.map(...) || []
RegionData(list, meta) ==
    IF meta = NULL THEN <<>>
    ELSE [i \in 1..Len(meta.regions) |->
            [name |-> meta.regions[i],
             projects |-> Len(Filter(list, "region", meta.regions[i])),
             employees |-> Reduce(Filter(list, "region", meta.regions[i]),
                                  "employeesTotal")]]

\* ((part / total) * 100).toFixed(1): the text of a finite quotient has one
\* decimal, kept here as the number of tenths (333 is '33.3'); 0 / 0 is NaN
\* and n / 0 is Infinity, whose texts are 'NaN' and 'Infinity'. No division
\* of numbers throws. (The counts of DashboardRecords give no quotient that
\* lies halfway between two tenths, where the binary fraction would decide.)
Percentage(part, total) ==
    IF part = NaN \/ total = NaN THEN NaN
    ELSE IF total.int = 0 THEN (IF part.int = 0 THEN NaN ELSE Infinity)
    ELSE [tenths |-> (2000 * part.int + total.int) \div (2 * total.int)]

\* What one rendering of the Dashboard shows.
Dashboard(list, meta) ==
    [stats |-> Stats(list),
     sectorData |-> SectorData(list, meta),
     statusData |-> StatusData(list, meta),
     regionData |-> RegionData(list, meta),
     malePercent |-> Percentage(Stats(list).maleEmployees, Stats(list).totalEmployees),
     femalePercent |-> Percentage(Stats(list).femaleEmployees, Stats(list).totalEmployees)]

\* The Dashboard is mounted with a record list and the metadata (or null).
DashInit ==
    /\ ServerInit
    /\ metadata \in MetadataStates
    /\ editingProject = NULL
    /\ showProjectForm = FALSE
    /\ formData = EmptyForm
    /\ otherSubSector = <<>>
    /\ errors = NoErrors
    /\ isDuplicateBlocked = FALSE
    /\ existingProjects = <<>>
    /\ loading = FALSE
    /\ outbox = <<>>
    /\ edits = 0
    /\ projects \in ProjectLists
    /\ dash = Undefined

\* React renders the Dashboard.
Render ==
    /\ dash = Undefined
    /\ dash' = Dashboard(projects, metadata)
    /\ UNCHANGED <<serverVars, formVars, projects>>

NextDash == Render

DashSpec == DashInit /\ [][NextDash]_vars

\* ------------------------------------------------- claims on the Dashboard
\* The sum of a field over the records at the positions in idx, null as 0.
RECURSIVE FieldSum(_, _, _)
FieldSum(list, field, idx) ==
    IF idx = {} THEN 0
    ELSE LET k == CHOOSE j \in idx : TRUE
         IN  (IF list[k][field] = NULL THEN 0 ELSE list[k][field].int)
             + FieldSum(list, field, idx \ {k})

\* The positions of the records whose field has the value.
Having(list, field, value) == {k \in 1..Len(list) : list[k][field] = Txt(value)}

Rendered == dash # Undefined

\* C17: for every record list the statistics are the number of records and
\* the sums of employeesTotal, employeesMale and employeesFemale over all
\* records; the empty list gives 0 four times.
C17_StatsAreCountAndSums ==
    Rendered =>
        /\ dash.stats.totalProjects = Len(projects)
        /\ dash.stats.totalEmployees = Num(FieldSum(projects, "employeesTotal", DOMAIN projects))
        /\ dash.stats.maleEmployees = Num(FieldSum(projects, "employeesMale", DOMAIN projects))
        /\ dash.stats.femaleEmployees = Num(FieldSum(projects, "employeesFemale", DOMAIN projects))
        /\ projects = <<>> =>
              /\ dash.stats.totalProjects = 0
              /\ dash.stats.totalEmployees = Num(0)
              /\ dash.stats.maleEmployees = Num(0)
              /\ dash.stats.femaleEmployees = Num(0)

\* Three records with employeesTotal 10, 20 and 30 are shown as 60 employees.
C17_Witness ==
    /\ Rendered
    /\ Len(projects) = 3
    /\ projects[1].employeesTotal = Num(10)
    /\ projects[2].employeesTotal = Num(20)
    /\ projects[3].employeesTotal = Num(30)
    /\ dash.stats.totalEmployees = Num(60)
    /\ dash.stats.totalProjects = 3

\* One breakdown against its enumeration: an entry per value, in order, with
\* the number of records of that value and (where the breakdown has one) the
\* sum of their employeesTotal.
BreakdownOk(data, enum, field, count, withEmployees) ==
    /\ Len(data) = Len(enum)
    /\ \A i \in 1..Len(enum) :
          /\ data[i].name = enum[i]
          /\ data[i][count] = Cardinality(Having(projects, field, enum[i]))
          /\ withEmployees =>
                data[i].employees
                    = Num(FieldSum(projects, "employeesTotal", Having(projects, field, enum[i])))
    /\ \A k \in 1..Len(projects) :
          (\A i \in 1..Len(enum) : projects[k][field] # Txt(enum[i]))
              => \A i \in 1..Len(data) : k \notin Having(projects, field, data[i].name)

\* C18: each of the per-sector, per-status and per-region breakdowns has one
\* entry per value of its metadata enumeration, in metadata order, counting
\* the records of that value and (sector, region) adding up their
\* employeesTotal; a record whose value is outside the enumeration is in no
\* entry.
C18_BreakdownsFollowMetadata ==
    (Rendered /\ metadata # NULL) =>
        /\ BreakdownOk(dash.sectorData, metadata.sectors, "sector", "value", TRUE)
        /\ BreakdownOk(dash.statusData, metadata.projectStatuses, "projectStatus", "value", FALSE)
        /\ BreakdownOk(dash.regionData, metadata.regions, "region", "projects", TRUE)
        /\ \A i, j \in 1..Len(dash.sectorData) :
              dash.sectorData[i].name = dash.sectorData[j].name => i = j

\* A list with a record of a known sector, a record outside the enumerations
\* and no record of the third sector has been broken down.
C18_Witness ==
    /\ Rendered /\ metadata # NULL
    /\ Len(dash.sectorData) = 3
    /\ dash.sectorData[1].value > 0
    /\ dash.sectorData[1].employees.int > 0
    /\ dash.sectorData[3].value = 0
    /\ \E k \in 1..Len(projects) :
          \A i \in 1..Len(metadata.sectors) : projects[k].sector # Txt(metadata.sectors[i])
    /\ \E i \in 1..Len(dash.regionData) : dash.regionData[i].projects > 0

\* C19: when totalEmployees is 0 (zero records among the cases) the male and
\* female percentages are defined values: numbers.
C19_PercentagesDefined ==
    (Rendered /\ dash.stats.totalEmployees = Num(0)) =>
        /\ dash.malePercent \notin {NaN, Infinity}
        /\ dash.femalePercent \notin {NaN, Infinity}

\* ------------------------------------------------------------ ProjectForm
MaxEdits == 1   \* change events one form handles

\* The characters String.prototype.trim removes and \S does not match.
WhiteSpace == {" ", "\t", "\n", "\r"}

\* s.trim()
RECURSIVE Trim(_)
Trim(s) ==
    IF s = <<>> THEN s
    ELSE IF s[1] \in WhiteSpace THEN Trim(Tail(s))
    ELSE IF s[Len(s)] \in WhiteSpace THEN Trim(SubSeq(s, 1, Len(s) - 1))
    ELSE s

UpperCase ==
    << "A", "B", "C", "D", "E", "F", "G", "H", "I", "J", "K", "L", "M",
       "N", "O", "P", "Q", "R", "S", "T", "U", "V", "W", "X", "Y", "Z" >>
LowerCase ==
    << "a", "b", "c", "d", "e", "f", "g", "h", "i", "j", "k", "l", "m",
       "n", "o", "p", "q", "r", "s", "t", "u", "v", "w", "x", "y", "z" >>

\* s.toLowerCase(), on the letters A-Z.
ToLowerCase(s) ==
    [i \in 1..Len(s) |->
        IF \E k \in 1..Len(UpperCase) : UpperCase[k] = s[i]
        THEN LowerCase[CHOOSE k \in 1..Len(UpperCase) : UpperCase[k] = s[i]]
        ELSE s[i]]

\* /\S+@\S+\.\S+/.test(s): somewhere in s a non-space character, '@', one or
\* more non-space characters, '.', a non-space character.
EmailPattern(s) ==
    \E a, d \in 1..Len(s) :
        /\ s[a] = "@" /\ s[d] = "."
        /\ a > 1 /\ s[a - 1] \notin WhiteSpace
        /\ d > a + 1 /\ \A k \in (a + 1)..(d - 1) : s[k] \notin WhiteSpace
        /\ d < Len(s) /\ s[d + 1] \notin WhiteSpace

Digits == << "0", "1", "2", "3", "4", "5", "6", "7", "8", "9" >>

\* Number(value) for the values a number input holds: '' (also what the
\* input holds for text that is no number) is 0, a run of digits is its
\* decimal value; anything else counts as NaN here.
RECURSIVE Decimal(_)
Decimal(s) ==
    IF s = <<>> THEN 0
    ELSE 10 * Decimal(SubSeq(s, 1, Len(s) - 1))
         + (CHOOSE k \in 0..9 : Digits[k + 1] = s[Len(s)])
ToNumber(s) ==
    IF \A i \in 1..Len(Trim(s)) : \E k \in 1..Len(Digits) : Digits[k] = Trim(s)[i]
    THEN Num(Decimal(Trim(s)))
    ELSE NaN

\* A string in a condition: '' is falsy.
Truthy(v) == v # NULL /\ v # Undefined /\ v.text # <<>>

Other == <<"O", "t", "h", "e", "r">>

\* The records the form meets: a regular one; one with the same triple but
\* for the case of its name; and three stored through the API, with a blank
\* sector, with an empty sector, and with a sub-sector outside the
\* enumeration.
RecA == Record("1", FilledForm)
RecUpper == Record("2", With(FilledForm, "companyName", Txt(<<"A", "C", "M", "E">>)))
RecBlank == Record("3", With(FilledForm, "sector", Txt(<<" ">>)))
RecNoSector == Record("4", With(FilledForm, "sector", Txt(<<>>)))
RecCustom ==
    Record("5", With(With(FilledForm, "companyName", Txt(<<"B", "e", "t", "a">>)), "subSector", Txt(<<"C", "u", "s", "t", "o", "m">>)))

\* What fetchProjects may answer the form, and the records it may edit.
FetchResults == { <<RecA>>, <<RecUpper, RecA>>, <<RecNoSector, RecBlank>>, <<RecCustom>> }
EditRecords == {RecA, RecBlank, RecCustom}

\* useEffect [project, metadata]: the form takes the record's values; a
\* sub-sector that metadata.subSectors does not include (any sub-sector
\* while metadata is null) goes to the free text and the select to 'Other'.
EditLoad(project, meta) ==
    LET data == [c \in DataCols |-> project[c]]
        listed == /\ meta # NULL
                  /\ \E i \in 1..Len(meta.subSectors) :
                        Txt(meta.subSectors[i]) = project.subSector
    IN  IF Truthy(project.subSector) /\ ~listed
        THEN [formData |-> [data EXCEPT !.subSector = Txt(Other)],
              otherSubSector |-> project.subSector.text]
        ELSE [formData |-> data, otherSubSector |-> <<>>]

\* The duplicate check of a mutant that compares the names as they are.
DuplicateCheckCaseSensitive(data, existing, project) ==
    /\ Truthy(data.companyName) /\ Truthy(data.sector) /\ Truthy(data.region)
    /\ \E i \in 1..Len(existing) :
          /\ existing[i].companyName.text = data.companyName.text
          /\ existing[i].sector = data.sector
          /\ existing[i].region = data.region
          /\ (project = NULL \/ existing[i].id # project.id)

\* useEffect [companyName, sector, region, existingProjects, project]: the
\* value setIsDuplicateBlocked is called with.
DuplicateCheck(data, existing, project) ==
    /\ Truthy(data.companyName) /\ Truthy(data.sector) /\ Truthy(data.region)
    /\ \E i \in 1..Len(existing) :
          /\ ToLowerCase(existing[i].companyName.text) = ToLowerCase(data.companyName.text)
          /\ existing[i].sector = data.sector
          /\ existing[i].region = data.region
          /\ (project = NULL \/ existing[i].id # project.id)

\* The fields validateForm trims before testing, and those it tests as they
\* are.
TrimmedFields == {"companyName", "zone", "woreda", "owner", "contactPerson", "ownerPhone"}
PlainFields == {"sector", "subSector", "region", "approvalDate", "projectStatus"}

RequiredMessage == "form.required"
EmailMessage == "Invalid email format"
DuplicateMessage ==
    "Cannot create duplicate project. Please modify the company name, sector, or region."

\* newErrors, as a function from the names that have an error.
ErrorsOf(missing, badEmail, blocked) ==
    [n \in missing \cup (IF badEmail THEN {"companyEmail"} ELSE {})
               \cup (IF blocked THEN {"duplicate"} ELSE {}) |->
        IF n \in missing THEN RequiredMessage
        ELSE IF n = "companyEmail" THEN EmailMessage
        ELSE DuplicateMessage]

\* The fields validateForm finds missing.
Missing(data) ==
    {f \in TrimmedFields \cup {"companyEmail"} : Trim(data[f].text) = <<>>}
        \cup {f \in PlainFields : ~Truthy(data[f])}

\* validateForm of a mutant that leaves the duplicate-blocked flag out.
ValidateFormIgnoresFlag(data, blocked) ==
    ErrorsOf(Missing(data),
             "companyEmail" \notin Missing(data) /\ ~EmailPattern(data.companyEmail.text),
             FALSE)

\* validateForm: newErrors.
ValidateForm(data, blocked) ==
    ErrorsOf(Missing(data),
             "companyEmail" \notin Missing(data) /\ ~EmailPattern(data.companyEmail.text),
             blocked)

\* The values a change event may carry for a field. A field with options is
\* a select of '' and the enumeration (two of its values here); without
\* metadata it is a text input.
Choices(enum, meta) ==
    IF meta = NULL THEN {<<>>, <<" ">>, enum[1]} ELSE {<<>>, enum[1], enum[2]}
TypedValues(name, meta) ==
    CASE name = "companyName" -> {<<>>, <<" ">>, <<"a", "c", "m", "e">>}
      [] name = "sector" -> Choices(Metadata.sectors, meta)
      [] name = "subSector" ->
            IF meta = NULL THEN {<<>>, Other, Metadata.subSectors[1]}
            ELSE {<<>>, Metadata.subSectors[1], Metadata.subSectors[2]}
      [] name = "region" -> Choices(Metadata.regions, meta)
      [] name = "projectStatus" -> Choices(Metadata.projectStatuses, meta)
      [] name = "approvalDate" -> {<<>>, <<"2", "0", "2", "4", "-", "0", "1", "-", "0", "1">>}
      [] name = "companyEmail" -> {<<>>, <<"a", "@", "b">>, <<"a", "@", "b", ".", "c">>, <<"a", "b">>}
      [] name = "companyWebsite" -> {<<>>, <<"h", "t", "t", "p", ":", "/", "/", "x", ".", "e", "t">>}
      [] name \in {"employeesMale", "employeesFemale"} -> {<<>>, <<"7">>}
      [] name \in {"advisorCompany", "evaluator", "grantedBy"} -> {<<>>, <<"x">>}
      [] OTHER -> {<<>>, <<" ">>, <<"x">>}

\* The inputs that raise change events: employeesTotal is read-only.
FieldNames == DataCols \ {"employeesTotal"}

\* newData of a mutant that does not recompute employeesTotal.
NewDataKeepsTotal(prev, name, value) ==
    [prev EXCEPT ![name] = IF name \in {"employeesMale", "employeesFemale"}
                           THEN ToNumber(value) ELSE Txt(value)]

\* handleChange's newData.
NewData(prev, name, value) ==
    LET typed == IF name \in {"employeesMale", "employeesFemale"}
                 THEN ToNumber(value) ELSE Txt(value)
        data == [prev EXCEPT ![name] = typed]
    IN  IF name \in {"employeesMale", "employeesFemale"}
        THEN [data EXCEPT !.employeesTotal = JsAdd(data.employeesMale, data.employeesFemale)]
        ELSE data

\* if (errors[name]) setErrors(prev => ({ ...prev, [name]: '' }))
Cleared(errs, name) ==
    IF name \in DOMAIN errs /\ errs[name] # ""
    THEN [errs EXCEPT ![name] = ""] ELSE errs

\* The form mounted by "Add Project" (typed into or not) or by "Edit" on a
\* record; fetchProjects has not answered yet.
FormInit ==
    /\ ServerInit
    /\ metadata \in MetadataStates
    /\ showProjectForm = TRUE
    /\ editingProject \in {NULL} \cup EditRecords
    /\ IF editingProject = NULL
       THEN /\ formData \in {EmptyForm, FilledForm}
            /\ otherSubSector = <<>>
            /\ projects = <<>>
       ELSE /\ formData = EditLoad(editingProject, metadata).formData
            /\ otherSubSector = EditLoad(editingProject, metadata).otherSubSector
            /\ projects = <<editingProject>>
    /\ errors = NoErrors
    /\ isDuplicateBlocked = FALSE
    /\ existingProjects = <<>>
    /\ loading = FALSE
    /\ outbox = <<>>
    /\ edits = 0
    /\ dash = Undefined

\* loadExistingProjects: fetchProjects answers; the duplicate check runs
\* again on the new list.
LoadExistingProjects ==
    /\ showProjectForm /\ existingProjects = <<>>
    /\ \E list \in FetchResults :
          /\ existingProjects' = list
          /\ isDuplicateBlocked' = DuplicateCheck(formData, list, editingProject)
    /\ UNCHANGED <<serverVars, metadata, editingProject, showProjectForm, formData,
                   otherSubSector, errors, loading, outbox, edits, dashVars>>

\* handleChange, and the duplicate check that follows the new formData.
HandleChange ==
    /\ showProjectForm /\ edits < MaxEdits
    /\ \E name \in FieldNames :
          \E value \in TypedValues(name, metadata) :
              /\ formData' = NewData(formData, name, value)
              /\ otherSubSector' =
                    IF name = "subSector" /\ value # Other THEN <<>> ELSE otherSubSector
              /\ errors' = Cleared(errors, name)
              /\ isDuplicateBlocked' =
                    DuplicateCheck(NewData(formData, name, value), existingProjects,
                                   editingProject)
    /\ edits' = edits + 1
    /\ UNCHANGED <<serverVars, metadata, editingProject, showProjectForm,
                   existingProjects, loading, outbox, dashVars>>

\* handleOtherSubSectorChange: the free text shown while the sub-sector is
\* 'Other'.
HandleOtherSubSectorChange ==
    /\ showProjectForm /\ edits < MaxEdits
    /\ formData.subSector = Txt(Other)
    /\ \E value \in {<<>>, <<" ">>, <<"C", "u", "s", "t", "o", "m">>} :
          otherSubSector' = value
    /\ errors' = Cleared(errors, "subSector")
    /\ edits' = edits + 1
    /\ UNCHANGED <<serverVars, metadata, editingProject, showProjectForm, formData,
                   isDuplicateBlocked, existingProjects, loading, outbox, dashVars>>

\* submitData and the API call made with it.
Request(data, other, project) ==
    [api |-> IF project = NULL THEN "createProject" ELSE "updateProject",
     id |-> IF project = NULL THEN Undefined ELSE project.id,
     data |-> [data EXCEPT !.subSector = IF @ = Txt(Other) THEN Txt(other) ELSE @]]

\* The free-text input of sub-sector 'Other' without its required attribute.
OtherUnchecked(data, other) == TRUE

\* <input ... required />, shown while the sub-sector is 'Other': the browser
\* does not raise the form's submit event while a required input is empty.
OtherSpecified(data, other) == data.subSector = Txt(Other) => other # <<>>

\* handleSubmit up to its await: the form's submit event. The submit button
\* is disabled while loading or blocked, but validateForm tests the flag
\* itself, and the model lets the event come while the flag is set; it
\* follows one submission at a time. Of the browser's constraint validation
\* the model keeps the required attribute; the formats of type email and url
\* are left to validateForm.
HandleSubmit ==
    /\ showProjectForm /\ ~loading
    /\ OtherSpecified(formData, otherSubSector)
    /\ errors' = ValidateForm(formData, isDuplicateBlocked)
    /\ IF DOMAIN ValidateForm(formData, isDuplicateBlocked) = {}
       THEN /\ loading' = TRUE
            /\ outbox' = Append(outbox, Request(formData, otherSubSector, editingProject))
       ELSE UNCHANGED <<loading, outbox>>
    /\ UNCHANGED <<serverVars, metadata, editingProject, showProjectForm, formData,
                   otherSubSector, isDuplicateBlocked, existingProjects, edits, dashVars>>

\* The id the server gives a created record.
CreatedId == "6"

\* handleSubmit after its await, the request having succeeded:
\* onSubmit(result) is handleProjectUpdated or handleProjectAdded, which put
\* the result in the cache and close the form; finally setLoading(false).
SubmitResolved ==
    /\ showProjectForm /\ outbox # <<>>
    /\ LET call == Head(outbox)
           result == Record(IF call.api = "createProject" THEN CreatedId ELSE call.id.text,
                            call.data)
       IN  projects' =
              IF editingProject # NULL
              THEN [i \in 1..Len(projects) |->
                       IF projects[i].id = result.id THEN result ELSE projects[i]]
              ELSE Append(projects, result)
    /\ outbox' = Tail(outbox)
    /\ editingProject' = NULL
    /\ showProjectForm' = FALSE
    /\ loading' = FALSE
    /\ UNCHANGED <<serverVars, metadata, formData, otherSubSector, errors,
                   isDuplicateBlocked, existingProjects, edits, dash>>

NextForm ==
    \/ LoadExistingProjects
    \/ HandleChange
    \/ HandleOtherSubSectorChange
    \/ HandleSubmit
    \/ SubmitResolved

FormSpec == FormInit /\ [][NextForm]_vars

\* ---------------------------------------------------- claims on the form
\* a and b are the same but for the case of their letters.
SameIgnoringCase(a, b) ==
    /\ Len(a) = Len(b)
    /\ \A i \in 1..Len(a) :
          \/ a[i] = b[i]
          \/ \E k \in 1..Len(UpperCase) :
                {a[i], b[i]} = {UpperCase[k], LowerCase[k]}

\* An existing record, not the one being edited, holds the candidate's triple.
TripleTaken ==
    \E i \in 1..Len(existingProjects) :
        /\ editingProject = NULL \/ existingProjects[i].id # editingProject.id
        /\ SameIgnoringCase(existingProjects[i].companyName.text, formData.companyName.text)
        /\ existingProjects[i].sector = formData.sector
        /\ existingProjects[i].region = formData.region

\* The candidate's triple has no empty component.
TripleFilled ==
    /\ formData.companyName.text # <<>>
    /\ formData.sector.text # <<>>
    /\ formData.region.text # <<>>

\* C13 as stated: the duplicate-blocked flag is set exactly when the existing
\* record set contains a record, other than the one being edited, whose
\* companyName equals the candidate's ignoring case and whose sector and
\* region equal the candidate's.
C13_FlagIffTripleTaken ==
    showProjectForm => (isDuplicateBlocked <=> TripleTaken)

\* C13, amended: the flag is set exactly when the candidate's companyName,
\* sector and region are all non-empty and such a record exists; so editing
\* a record with unchanged fields, that record being the only one with its
\* triple, leaves the flag clear.
C13_FlagIffFilledTripleTaken ==
    showProjectForm =>
        /\ isDuplicateBlocked <=> (TripleFilled /\ TripleTaken)
        /\ ( /\ editingProject # NULL
             /\ \A c \in {"companyName", "sector", "region"} :
                   formData[c] = editingProject[c]
             /\ \A i \in 1..Len(existingProjects) :
                   existingProjects[i].id = editingProject.id )
           => ~isDuplicateBlocked

\* A candidate typed in another case than the record that holds its triple is
\* flagged.
C13_Witness ==
    /\ showProjectForm /\ isDuplicateBlocked
    /\ editingProject = NULL
    /\ \E i \in 1..Len(existingProjects) :
          /\ existingProjects[i].companyName # formData.companyName
          /\ existingProjects[i].sector = formData.sector
          /\ existingProjects[i].region = formData.region

\* A step of handleSubmit (the only step of the open form that handles no
\* change event and no answer).
SubmitStep ==
    /\ showProjectForm /\ showProjectForm'
    /\ edits' = edits
    /\ existingProjects' = existingProjects

\* C14: validation fails if and only if a required-field or format error
\* exists or the duplicate-blocked flag is set; when it fails, handleSubmit
\* sends no request and calls no onSubmit, so the store and the cached list
\* stay as they are. When it passes, one request is sent.
C14_FailedValidationSendsNothing ==
    [][SubmitStep =>
          LET failed == \/ DOMAIN errors' \ {"duplicate"} # {}
                        \/ isDuplicateBlocked
          IN  /\ failed <=> (outbox' = outbox)
              /\ failed => /\ loading' = loading
                           /\ store' = store
                           /\ projects' = projects
              /\ ~failed => /\ Len(outbox') = Len(outbox) + 1
                            /\ loading']_vars

\* A form with no field error was refused for the flag alone: nothing sent.
C14_Witness ==
    /\ showProjectForm /\ isDuplicateBlocked
    /\ DOMAIN errors = {"duplicate"}
    /\ outbox = <<>> /\ ~loading
    /\ projects = <<>>

RequiredFields == TrimmedFields \cup PlainFields \cup {"companyEmail"}

\* C15: validateForm records the required error under the name of each of the
\* twelve required fields exactly when the field's value is empty after
\* trimming, and records nothing under the name of an optional field.
C15_RequiredIffEmptyAfterTrim ==
    [][SubmitStep =>
          /\ \A f \in RequiredFields :
                (f \in DOMAIN errors' /\ errors'[f] = RequiredMessage)
                    <=> (Trim(formData[f].text) = <<>>)
          /\ \A f \in DataCols \ RequiredFields : f \notin DOMAIN errors']_vars

\* ------------------------------------------------ claims on store failures
\* The table's constraints reject the statement of the last request: an
\* INSERT that leaves a NOT NULL column NULL or whose id is taken, an UPDATE
\* of an existing row that leaves a NOT NULL column NULL.
StoreRejects ==
    \/ last.op = "POST" /\ ~Admissible
    \/ last.op = "PUT" /\ ~Admissible /\ RowsWithId(last.pre, last.id) # {}

Omitted == DataCols \ DOMAIN last.body

\* The last request is a PUT to an id the table held.
PutToExisting == last.op = "PUT" /\ RowsWithId(last.pre, last.id) # {}

NewId == NewProject(last.body, last.reads[1], last.reads[2], last.reads[3])["id"]

\* The last request is a create whose generated id a stored record has.
Collides ==
    /\ last.op = "POST"
    /\ "id" \notin DOMAIN last.body
    /\ \E i \in 1..Len(last.pre) : last.pre[i]["id"] = NewId

\* C27: a create whose generated id equals the id of a stored record alters
\* no stored record and stores nothing.
C27_CollidingCreateStoresNothing ==
    Collides => (store = last.pre /\ ~Succeeded)

\* Two creates in the same millisecond: the second was refused.
C27_Witness ==
    /\ Collides
    /\ NewId = Txt(ToString(clock))
    /\ Len(store) = 1 /\ store = last.pre
    /\ last.status = 500

\* ------------------------------------------- claims on the form's requests
\* employeesTotal = employeesMale + employeesFemale in the form data.
SumHolds(data) ==
    /\ IsNum(data.employeesMale) /\ IsNum(data.employeesFemale)
    /\ IsNum(data.employeesTotal)
    /\ data.employeesTotal.int = data.employeesMale.int + data.employeesFemale.int

\* C23: in the form, employeesTotal = employeesMale + employeesFemale is kept
\* by every change event, and employeesTotal changes only when one of the
\* other two does.
C23_FormKeepsTotal ==
    [][(showProjectForm /\ SumHolds(formData)) =>
          /\ SumHolds(formData')
          /\ formData'.employeesTotal # formData.employeesTotal =>
                \/ formData'.employeesMale # formData.employeesMale
                \/ formData'.employeesFemale # formData.employeesFemale]_vars

\* The number of men was changed from 4 to 7 and the total followed.
C23_Witness ==
    /\ showProjectForm /\ edits > 0
    /\ formData.employeesMale = Num(7)
    /\ formData.employeesFemale = Num(6)
    /\ formData.employeesTotal = Num(13)

\* C24: every request the form sends carries a non-empty subSector: the
\* selected value or, when 'Other' is selected, the free text; and nothing
\* is sent while 'Other' is selected and the free text is empty.
C24_RequestHasSubSector ==
    [][SubmitStep =>
          /\ (formData.subSector = Txt(Other) /\ otherSubSector = <<>>)
                => outbox' = outbox
          /\ Len(outbox') > Len(outbox) =>
                LET sent == outbox'[Len(outbox')].data.subSector
                IN  /\ sent.text # <<>>
                    /\ sent = IF formData.subSector = Txt(Other)
                              THEN Txt(otherSubSector) ELSE formData.subSector]_vars

\* A request went out with the free text of 'Other' as its subSector.
C24_Witness ==
    /\ showProjectForm /\ Len(outbox) = 1
    /\ formData.subSector = Txt(Other)
    /\ otherSubSector # <<>>
    /\ outbox[1].data.subSector = Txt(otherSubSector)

\* ================================================== the App and the server
\* One browser session against the server: the cached list, the form, the
\* delete buttons of the list, and the requests on their way. A request is
\* kept in outbox from the click that starts it until its handler has run to
\* its end; it holds what the handler's closure holds: the App's handler of
\* the render in which it was started, and with it that render's projects.
MaxInFlight == 2   \* requests that may be on their way at once

\* The record the session starts with, when there is one.
StartLists == {<<>>, <<RecA>>}

\* handleProjectAdded: setProjects([...projects, project])
HandleProjectAdded(seen, project) == Append(seen, project)

\* handleProjectUpdated: setProjects(projects.map(p => p.id === u.id ? u : p))
HandleProjectUpdated(seen, updatedProject) ==
    [i \in 1..Len(seen) |->
        IF seen[i].id = updatedProject.id THEN updatedProject ELSE seen[i]]

\* handleProjectDeleted: setProjects(projects.filter(p => p.id !== projectId))
HandleProjectDeleted(seen, projectId) ==
    SelectSeq(seen, LAMBDA p : p.id # projectId)

\* A request on its way: what is asked (api, id, data), the projects of the
\* render it was started in, whether the form that sent it is still mounted,
\* and how far it is: sent, done (the promise resolved with result) or
\* failed (the promise rejected).
Call(request, seen, form) ==
    [api |-> request.api, id |-> request.id, data |-> request.data,
     seen |-> seen, form |-> form, phase |-> "sent", result |-> Undefined]

Remove(calls, k) == SubSeq(calls, 1, k - 1) \o SubSeq(calls, k + 1, Len(calls))

\* The forms of the requests on their way are unmounted.
Unmounted(calls) == [k \in 1..Len(calls) |-> [calls[k] EXCEPT !.form = FALSE]]

\* The creates on their way to the server.
Creating == {k \in 1..Len(outbox) : outbox[k].api = "createProject" /\ outbox[k].phase = "sent"}

\* ProjectForm is mounted: its useState initial values.
FormMounted(data, other) ==
    /\ formData' = data
    /\ otherSubSector' = other
    /\ errors' = NoErrors
    /\ isDuplicateBlocked' = FALSE
    /\ existingProjects' = <<>>
    /\ loading' = FALSE

\* ProjectForm is not rendered: its state is gone.
FormGone == FormMounted(EmptyForm, <<>>)

\* The session after loadData on a server that holds nothing or one record:
\* the cache holds the store's records, no form is open.
AppInit ==
    /\ store \in StartLists
    /\ clock = 1
    /\ last = Exchange("none", Undefined, Undefined, 0, Undefined, <<>>, <<>>)
    /\ pending = {}
    /\ metadata = Metadata
    /\ editingProject = NULL
    /\ showProjectForm = FALSE
    /\ formData = EmptyForm
    /\ otherSubSector = <<>>
    /\ errors = NoErrors
    /\ isDuplicateBlocked = FALSE
    /\ existingProjects = <<>>
    /\ loading = FALSE
    /\ outbox = <<>>
    /\ edits = 0
    /\ projects = store
    /\ dash = Undefined

\* The Add Project button (the form is a modal: the page behind it takes no
\* clicks while it is open).
AddProjectClick ==
    /\ ~showProjectForm
    /\ editingProject' = NULL
    /\ showProjectForm' = TRUE
    /\ FormMounted(EmptyForm, <<>>)
    /\ UNCHANGED <<serverVars, metadata, outbox, edits, dashVars>>

\* handleEditProject(project), from the Edit button of a row of the list.
HandleEditProject ==
    /\ ~showProjectForm
    /\ \E i \in 1..Len(projects) :
          /\ editingProject' = projects[i]
          /\ FormMounted(EditLoad(projects[i], metadata).formData,
                         EditLoad(projects[i], metadata).otherSubSector)
    /\ showProjectForm' = TRUE
    /\ UNCHANGED <<serverVars, metadata, outbox, edits, dashVars>>

\* onCancel
OnCancel ==
    /\ showProjectForm
    /\ showProjectForm' = FALSE
    /\ editingProject' = NULL
    /\ FormGone
    /\ outbox' = Unmounted(outbox)
    /\ UNCHANGED <<serverVars, metadata, edits, dashVars>>

\* The user fills the form in: the change events that lead from the empty
\* form to a complete one. (A record being edited is sent as it was loaded.)
TypeIn ==
    /\ showProjectForm
    /\ editingProject = NULL /\ formData = EmptyForm
    /\ formData' = FilledForm
    /\ isDuplicateBlocked' = DuplicateCheck(formData', existingProjects, editingProject)
    /\ UNCHANGED <<serverVars, metadata, editingProject, showProjectForm, otherSubSector,
                   errors, existingProjects, loading, outbox, edits, dashVars>>

\* loadExistingProjects against the server: GET /api/projects answers the
\* form (an answer of no records leaves the form as it is).
FetchExisting ==
    /\ showProjectForm /\ existingProjects = <<>> /\ store # <<>>
    /\ \E list \in SqlAll(store) :
          /\ existingProjects' = list
          /\ isDuplicateBlocked' = DuplicateCheck(formData, list, editingProject)
    /\ UNCHANGED <<serverVars, metadata, editingProject, showProjectForm, formData,
                   otherSubSector, errors, loading, outbox, edits, dashVars>>

\* SubmitClick of a form that asks the server's table for duplicates.
SubmitClickAsksServer ==
    /\ showProjectForm /\ ~loading
    /\ OtherSpecified(formData, otherSubSector)
    /\ Len(outbox) < MaxInFlight
    /\ editingProject = NULL =>
          /\ Len(store) + Cardinality(Creating) < MaxRows
          /\ Len(projects) < MaxRows
    /\ LET found == ValidateForm(formData, DuplicateCheck(formData, store, editingProject))
       IN  /\ errors' = found
           /\ IF DOMAIN found = {}
              THEN /\ loading' = TRUE
                   /\ outbox' = Append(outbox,
                                       Call(Request(formData, otherSubSector, editingProject),
                                            projects, TRUE))
              ELSE UNCHANGED <<loading, outbox>>
    /\ UNCHANGED <<serverVars, metadata, editingProject, showProjectForm, formData,
                   otherSubSector, isDuplicateBlocked, existingProjects, edits, dashVars>>

\* handleSubmit up to its await, in the App: the request it sends holds the
\* onSubmit of this render. Creates are sent while the table and the cache
\* have room.
SubmitClick ==
    /\ showProjectForm /\ ~loading
    /\ OtherSpecified(formData, otherSubSector)
    /\ Len(outbox) < MaxInFlight
    /\ editingProject = NULL =>
          /\ Len(store) + Cardinality(Creating) < MaxRows
          /\ Len(projects) < MaxRows
    /\ errors' = ValidateForm(formData, isDuplicateBlocked)
    /\ IF DOMAIN ValidateForm(formData, isDuplicateBlocked) = {}
       THEN /\ loading' = TRUE
            /\ outbox' = Append(outbox,
                                Call(Request(formData, otherSubSector, editingProject),
                                     projects, TRUE))
       ELSE UNCHANGED <<loading, outbox>>
    /\ UNCHANGED <<serverVars, metadata, editingProject, showProjectForm, formData,
                   otherSubSector, isDuplicateBlocked, existingProjects, edits, dashVars>>

\* ProjectList.handleDelete up to its await: the user confirms and the
\* request goes out; it holds the onDelete of this render.
DeleteClick ==
    /\ ~showProjectForm
    /\ Len(outbox) < MaxInFlight
    /\ \E i \in 1..Len(projects) :
          outbox' = Append(outbox,
                           Call([api |-> "deleteProject", id |-> projects[i].id,
                                 data |-> Undefined],
                                projects, FALSE))
    /\ UNCHANGED <<serverVars, formVarsButOutbox, dashVars>>

\* What the server makes of a request, the handler reading the clock once:
\* the table afterwards and what the API call comes to. A 500 rejects the
\* call, and so does the empty body of an update that read no row back.
Served(call, tbl, now) ==
    LET res == CASE call.api = "createProject" ->
                        CreateProject(tbl, NewProject(call.data, now, now, now))
                 [] call.api = "updateProject" ->
                        UpdateProject(tbl, call.id.text, call.data, now)
                 [] OTHER -> DeleteProject(tbl, call.id.text)
    IN  [tbl |-> res.tbl,
         call |-> IF res.rejected \/ res.value = Undefined
                  THEN [call EXCEPT !.phase = "failed"]
                  ELSE [call EXCEPT !.phase = "done", !.result = res.value]]

\* The server handles a request and answers 2xx.
ServeOk ==
    /\ \E k \in 1..Len(outbox) :
          /\ outbox[k].phase = "sent"
          /\ Served(outbox[k], store, clock).call.phase = "done"
          /\ store' = Served(outbox[k], store, clock).tbl
          /\ outbox' = [outbox EXCEPT ![k] = Served(outbox[k], store, clock).call]
    /\ UNCHANGED <<clock, last, pending, formVarsButOutbox, dashVars>>

\* The server handles a request and the call fails: the store rejected the
\* statement, or the update found no row to read back.
ServeRejected ==
    /\ \E k \in 1..Len(outbox) :
          /\ outbox[k].phase = "sent"
          /\ Served(outbox[k], store, clock).call.phase = "failed"
          /\ store' = Served(outbox[k], store, clock).tbl
          /\ outbox' = [outbox EXCEPT ![k] = Served(outbox[k], store, clock).call]
    /\ UNCHANGED <<clock, last, pending, formVarsButOutbox, dashVars>>

\* A request does not reach the server.
NetworkFails ==
    /\ \E k \in 1..Len(outbox) :
          /\ outbox[k].phase = "sent"
          /\ outbox' = [outbox EXCEPT ![k].phase = "failed"]
    /\ UNCHANGED <<serverVars, formVarsButOutbox, dashVars>>

\* handleSubmit after its await succeeded: onSubmit(result) is the
\* handleProjectAdded or handleProjectUpdated of the render the request was
\* sent from; both close the form, whichever form is open by now.
SubmitSucceeded ==
    /\ \E k \in 1..Len(outbox) :
          LET call == outbox[k] IN
          /\ call.phase = "done" /\ call.api # "deleteProject"
          /\ IF call.api = "createProject"
             THEN /\ projects' = HandleProjectAdded(call.seen, call.result)
                  /\ editingProject' = editingProject
             ELSE /\ projects' = HandleProjectUpdated(call.seen, call.result)
                  /\ editingProject' = NULL
          /\ outbox' = Unmounted(Remove(outbox, k))
    /\ showProjectForm' = FALSE
    /\ FormGone
    /\ UNCHANGED <<serverVars, metadata, edits, dash>>

\* handleDelete after its await succeeded: onDelete(projectId).
DeleteSucceeded ==
    /\ \E k \in 1..Len(outbox) :
          LET call == outbox[k] IN
          /\ call.phase = "done" /\ call.api = "deleteProject"
          /\ projects' = HandleProjectDeleted(call.seen, call.id)
          /\ outbox' = Remove(outbox, k)
    /\ UNCHANGED <<serverVars, formVarsButOutbox, dash>>

\* CallFailed of a handleSubmit without its finally block.
CallFailedNoFinally ==
    /\ \E k \in 1..Len(outbox) :
          /\ outbox[k].phase = "failed"
          /\ outbox' = Remove(outbox, k)
    /\ UNCHANGED <<serverVars, formVarsButOutbox, dashVars>>

\* The catch and finally of handleSubmit, the catch of handleDelete: an
\* alert; the form that sent the request, if it is still there, stops
\* loading.
CallFailed ==
    /\ \E k \in 1..Len(outbox) :
          LET call == outbox[k] IN
          /\ call.phase = "failed"
          /\ loading' = IF call.form THEN FALSE ELSE loading
          /\ outbox' = Remove(outbox, k)
    /\ UNCHANGED <<serverVars, metadata, editingProject, showProjectForm, formData,
                   otherSubSector, errors, isDuplicateBlocked, existingProjects, edits,
                   dashVars>>

\* Another client of the server stores a record with the values of the
\* filled form.
OtherClientCreates ==
    /\ Len(store) + Cardinality(Creating) < MaxRows
    /\ ~CreateProject(store, NewProject(FilledForm, clock, clock, clock)).rejected
    /\ store' = CreateProject(store, NewProject(FilledForm, clock, clock, clock)).tbl
    /\ UNCHANGED <<clock, last, pending, clientVars>>

\* A request is answered, one way or the other; a handler runs to its end.
Answer == ServeOk \/ ServeRejected \/ NetworkFails
Settle == SubmitSucceeded \/ DeleteSucceeded \/ CallFailed

\* The session alone with the server, every request of which succeeds.
NextAlone ==
    \/ Tick
    \/ AddProjectClick
    \/ HandleEditProject
    \/ OnCancel
    \/ TypeIn
    \/ SubmitClick
    \/ DeleteClick
    \/ ServeOk
    \/ SubmitSucceeded
    \/ DeleteSucceeded

AloneSpec == AppInit /\ [][NextAlone]_vars

\* The session alone with the server, requests of which may fail; all of it
\* happens within one millisecond of the server's clock, so that a second
\* create proposes the id of the first.
NextApp ==
    \/ AddProjectClick
    \/ HandleEditProject
    \/ OnCancel
    \/ TypeIn
    \/ SubmitClick
    \/ DeleteClick
    \/ ServeOk
    \/ ServeRejected
    \/ NetworkFails
    \/ SubmitSucceeded
    \/ DeleteSucceeded
    \/ CallFailed

\* Every request is answered in the end and every answer is handled.
AppSpec == AppInit /\ [][NextApp]_vars /\ WF_vars(Answer) /\ WF_vars(Settle)

\* The session's form and another client, creating at the same server.
NextRace ==
    \/ Tick
    \/ AddProjectClick
    \/ OnCancel
    \/ TypeIn
    \/ FetchExisting
    \/ SubmitClick
    \/ ServeOk
    \/ SubmitSucceeded
    \/ OtherClientCreates

RaceSpec == AppInit /\ [][NextRace]_vars

\* --------------------------------------------------- claims on the session
\* The handler of request k runs to its end in this step.
Settles(k) ==
    \/ outbox' = Remove(outbox, k)
    \/ outbox' = Unmounted(Remove(outbox, k))

\* The cached list after the merge the claim describes, made on the list as
\* it is cached now.
MergedNow(call) ==
    CASE call.api = "createProject" -> projects \o <<call.result>>
      [] call.api = "updateProject" ->
            [i \in 1..Len(projects) |->
                IF projects[i].id = call.result.id THEN call.result ELSE projects[i]]
      [] OTHER -> SelectSeq(projects, LAMBDA p : p.id # call.id)

\* C22: after a mutation has succeeded the cache is merged: a create appends
\* the returned record to the cached list, an update replaces the cached
\* record of that id and keeps the rest and the order, a delete removes the
\* records of that id; and the cache changes at no other time.
C22_CacheMergesResult ==
    [][/\ \A k \in 1..Len(outbox) :
             (outbox[k].phase = "done" /\ Settles(k)) => projects' = MergedNow(outbox[k])
       /\ projects' # projects =>
             \E k \in 1..Len(outbox) : outbox[k].phase = "done" /\ Settles(k)]_vars

\* Two lists hold the same records, each as often.
SameRecords(a, b) ==
    /\ Len(a) = Len(b)
    /\ \A i \in 1..Len(a) : Occurrences(a, a[i]) = Occurrences(b, a[i])

\* C28: for a single client whose requests all succeed, once no request is
\* on its way the cached list holds exactly the records of the store.
C28_CacheEqualsStoreWhenIdle ==
    outbox = <<>> => SameRecords(projects, store)

\* C29: a non-null editingProject implies showProjectForm; the form sends an
\* update exactly when editingProject is non-null and a create otherwise;
\* and when the form closes editingProject is null.
C29_EditingOnlyWhileFormOpen ==
    [][/\ editingProject' # NULL => showProjectForm'
       /\ (Len(outbox') > Len(outbox) /\ showProjectForm) =>
             (outbox'[Len(outbox')].api = "updateProject" <=> editingProject # NULL)
       /\ (showProjectForm /\ ~showProjectForm') => editingProject' = NULL]_vars

\* The handler of a failed request k runs in this step.
FailureHandled(k) == outbox[k].phase = "failed" /\ outbox' = Remove(outbox, k)

\* C30: when a request has failed the cached list is unchanged, the form is
\* as open as it was and keeps its data, and the form that sent the request
\* stops loading; the cache changes only when a request has succeeded; and
\* a form that is loading stops loading in the end.
C30_FailureLeavesCacheAndForm ==
    /\ [][/\ \A k \in 1..Len(outbox) : FailureHandled(k) =>
                /\ projects' = projects
                /\ showProjectForm' = showProjectForm
                /\ editingProject' = editingProject
                /\ formData' = formData
                /\ outbox[k].form => ~loading'
          /\ projects' # projects =>
                \E k \in 1..Len(outbox) : outbox[k].phase = "done" /\ Settles(k)]_vars
    /\ (loading ~> ~loading)

\* The request of the open form has failed; the form is still loading.
C30_Witness ==
    /\ showProjectForm /\ loading
    /\ formData = FilledForm
    /\ \E k \in 1..Len(outbox) : outbox[k].phase = "failed" /\ outbox[k].form

\* A record of the list, other than the one being edited, has the triple of
\* the form's candidate.
TripleIn(list) ==
    \E i \in 1..Len(list) :
        /\ editingProject = NULL \/ list[i].id # editingProject.id
        /\ SameIgnoringCase(list[i].companyName.text, formData.companyName.text)
        /\ list[i].sector = formData.sector
        /\ list[i].region = formData.region

\* A step of handleSubmit in the race: nothing but errors, loading and outbox
\* may change.
RaceSubmit ==
    /\ showProjectForm /\ showProjectForm' /\ ~loading
    /\ formData' = formData /\ existingProjects' = existingProjects
    /\ store' = store /\ clock' = clock

\* C25: the duplicate check sees only the list the form fetched: whatever
\* the store holds, a candidate whose triple is not in that list (a record
\* stored after the fetch, a fetch not answered) is not flagged, and the
\* submit of a complete form sends its request.
C25_CheckSeesOnlySnapshot ==
    [][/\ (showProjectForm /\ ~TripleIn(existingProjects)) => ~isDuplicateBlocked
       /\ (RaceSubmit /\ formData = FilledForm /\ ~TripleIn(existingProjects)) =>
             /\ Len(outbox') = Len(outbox) + 1
             /\ "duplicate" \notin DOMAIN errors']_vars

\* Both records are stored: the store holds two records of one triple, one
\* stored by the other client and one by the session's form.
C25_Witness ==
    /\ Len(store) = 2 /\ Len(projects) = 1
    /\ Triple(store[1]) = Triple(store[2])
    /\ projects[1] = store[2]
    /\ store[1] # store[2]

====
